---- MODULE Spec2Model ----
(***************************************************************************)
(* Model of the sequential reporting workflow controller                   *)
(* (europeana_api/sequential_reporting.py, SequentialReportingServer):     *)
(* the session object, process_section and the handlers it dispatches to,  *)
(* the multi-strategy source discovery, the citation checks and the        *)
(* report planner.                                                         *)
(***************************************************************************)
EXTENDS Integers, Sequences, FiniteSets, TLC

VARIABLES
    topic,              \* self.topic: NoTopic (None) or Str(sequence of words)
    page_count,         \* self.page_count
    source_count,       \* self.source_count
    include_graphics,   \* self.include_graphics
    sources,            \* self.sources
    graphics,           \* self.graphics
    report_sections,    \* self.report_sections
    plan,               \* self.plan: NoPlan (None) or a plan record
    current_step,       \* self._current_step
    provider_analysis,  \* self.provider_analysis
    pc,                 \* position of the running call: "idle", "sources", "graphics"
    strat,              \* strategy the running discovery is at
    attempt,            \* attempt number of search_with_retry (0-based)
    all_results,        \* all_results / all_graphics of the running discovery
    seen_ids,           \* seen_ids of the running discovery
    result,             \* what the last process_section call returned
    pre,                \* the kind of the last call and what the session held when it began
    skipped_duplicate,  \* whether the running or last discovery met a record already seen
    gave_up,            \* how many sources the running or last discovery held when a
                        \* strategy last ran out of attempts, or -1
    waited,             \* seconds slept by time.sleep: in the strategy call that is
                        \* running, and in the one that last ran out of attempts
    since_init,         \* what has happened since the last initialization: a search
                        \* that returned sources, a confirmation that took effect
    args,               \* the arguments of a helper called on its own
    returns,            \* what the helper called on its own returned
    other,              \* the attributes, and the running call, of a second controller
    active              \* which controller (1 or 2) the variables above describe

session == <<topic, page_count, source_count, include_graphics, sources, graphics,
             report_sections, plan, current_step, provider_analysis>>
search == <<pc, strat, attempt, all_results, seen_ids, skipped_duplicate, gave_up, waited>>
vars == <<topic, page_count, source_count, include_graphics, sources, graphics,
          report_sections, plan, current_step, provider_analysis,
          pc, strat, attempt, all_results, seen_ids, result, pre, skipped_duplicate,
          since_init, args, returns, gave_up, waited, other, active>>
helper == <<args, returns>>
peer == <<other, active>>

-----------------------------------------------------------------------------
(* Bounds of the model                                                     *)

MaxPageCount == 104
MaxSections == 2
MaxRecordsPerCall == 2
MaxContentPieces == 3
MaxSourceList == 4

(* Program constants                                                       *)

DEFAULT_PAGE_COUNT == 4
DEFAULT_SOURCE_COUNT == 10
MaxPlanSections == 20
MinParagraphLen == 20
MinContentLen == 10
max_retries == 3
GraphicsCount == 5

-----------------------------------------------------------------------------
(* Loosely typed input values: a key is absent, or holds None, an int, a   *)
(* text that int() reads as a number (isdigit() iff it is not negative),   *)
(* another text, a bool or a list.                                         *)

Absent == [t |-> "absent"]
None == [t |-> "none"]
IntV(n) == [t |-> "int", v |-> n]
NumStr(n) == [t |-> "numstr", v |-> n]
Text == [t |-> "text"]
Bool(b) == [t |-> "bool", v |-> b]
List(s) == [t |-> "list", v |-> s]
Str(s) == [t |-> "str", v |-> s]

Has(inp, key) == inp[key] # Absent

\* bool(x)
truthy(x) ==
    CASE x.t \in {"absent", "none"} -> FALSE
      [] x.t = "bool" -> x.v
      [] x.t = "int" -> x.v # 0
      [] x.t = "list" -> x.v # <<>>
      [] x.t = "str" -> x.v # <<>>
      [] OTHER -> TRUE

NoTopic == [t |-> "none"]
NoPlan == [t |-> "none"]

Min(a, b) == IF a < b THEN a ELSE b

-----------------------------------------------------------------------------
(* ReportPlanner                                                           *)

Stub(name, k, bib) == [title |-> <<name, k>>, is_bibliography |-> bib]

\* the additional stubs numbered from 0
plan_sections_from_zero(pages) ==
    LET total_sections == Min(pages * 2 + 1, MaxPlanSections)
        standard ==
            <<Stub("Bibliography", 0, TRUE), Stub("Introduction", 0, FALSE)>>
            \o (IF pages >= 2 THEN <<Stub("Historical Context", 0, FALSE)>> ELSE <<>>)
            \o (IF pages >= 3
                THEN <<Stub("Main Analysis", 0, FALSE), Stub("Key Findings", 0, FALSE)>>
                ELSE <<>>)
            \o (IF pages >= 4
                THEN <<Stub("Detailed Examination", 0, FALSE),
                       Stub("Cultural Significance", 0, FALSE)>>
                ELSE <<>>)
        remaining_sections == total_sections - Len(standard)
        additional ==
            IF remaining_sections > 0
            THEN [i \in 1..remaining_sections |-> Stub("Additional Analysis", i - 1, FALSE)]
            ELSE <<>>
    IN  standard \o additional \o <<Stub("Conclusion", 0, FALSE)>>

plan_sections(pages) ==
    LET total_sections == Min(pages * 2 + 1, MaxPlanSections)
        standard ==
            <<Stub("Bibliography", 0, TRUE), Stub("Introduction", 0, FALSE)>>
            \o (IF pages >= 2 THEN <<Stub("Historical Context", 0, FALSE)>> ELSE <<>>)
            \o (IF pages >= 3
                THEN <<Stub("Main Analysis", 0, FALSE), Stub("Key Findings", 0, FALSE)>>
                ELSE <<>>)
            \o (IF pages >= 4
                THEN <<Stub("Detailed Examination", 0, FALSE),
                       Stub("Cultural Significance", 0, FALSE)>>
                ELSE <<>>)
        remaining_sections == total_sections - Len(standard)
        additional ==
            IF remaining_sections > 0
            THEN [i \in 1..remaining_sections |-> Stub("Additional Analysis", i, FALSE)]
            ELSE <<>>
    IN  standard \o additional \o <<Stub("Conclusion", 0, FALSE)>>

create_plan(tp, pages) ==
    LET sections == plan_sections(pages)
    IN  [t |-> "plan",
         topic |-> tp,
         total_sections |-> Len(sections),
         sections |-> sections,
         current_section |-> 0,
         current_step |-> 0]

-----------------------------------------------------------------------------
(* validate_section_data, initialization branch                            *)

\* int(x) of the count fields: the value, or the default on ValueError/TypeError
int_or(x, default) ==
    IF x.t \in {"int", "numstr"} THEN x.v ELSE default

validate_topic(inp) ==
    [topic |-> Str(inp.topic.v),
     page_count |-> IF Has(inp, "page_count")
                    THEN IntV(int_or(inp.page_count, DEFAULT_PAGE_COUNT)) ELSE Absent,
     source_count |-> IF Has(inp, "source_count")
                      THEN IntV(int_or(inp.source_count, DEFAULT_SOURCE_COUNT)) ELSE Absent,
     include_graphics |-> IF Has(inp, "include_graphics")
                          THEN Bool(inp.include_graphics.v) ELSE Absent]

\* data.get(key, default)
get(data, key, default) == IF data[key] = Absent THEN default ELSE data[key].v

\* which branch the presence rules pick for a dictionary input
input_kind(inp) ==
    IF Has(inp, "topic") THEN "topic"
    ELSE IF truthy(inp.search_sources) THEN "search"
    ELSE IF Has(inp, "confirm_sources") THEN "confirm"
    ELSE "section"

\* the kind of the call that begins, and what the session holds as it begins
Began(kind) == [call |-> kind, had_sources |-> sources # <<>>,
                had_graphics |-> graphics # <<>>,
                had_sections |-> report_sections # <<>>]

PreOf(inp) == Began(input_kind(inp))

\* no next step, no progress: the response is not that of an accepted section
NoStep == [kind |-> "none", number |-> 0, title |-> <<>>]
NoProgress == [sections |-> 0, total |-> 0]

Result(kind, isError) ==
    [kind |-> kind, isError |-> isError, escaped |-> FALSE,
     next_step |-> NoStep, progress |-> NoProgress]

NothingYet == [searched |-> FALSE, confirmed |-> FALSE]

\* an initialization that keeps the sections of the previous report
InitTopic_keeps_sections(inp) ==
    /\ pc = "idle"
    /\ Has(inp, "topic")
    /\ LET data == validate_topic(inp)
       IN  /\ topic' = data.topic
           /\ page_count' = get(data, "page_count", DEFAULT_PAGE_COUNT)
           /\ source_count' = get(data, "source_count", DEFAULT_SOURCE_COUNT)
           /\ include_graphics' = get(data, "include_graphics", FALSE)
           /\ sources' = <<>>
           /\ graphics' = <<>>
           /\ current_step' = 0
           /\ plan' = create_plan(data.topic, get(data, "page_count", DEFAULT_PAGE_COUNT))
    /\ result' = Result("init", FALSE)
    /\ pre' = PreOf(inp)
    /\ since_init' = NothingYet
    /\ UNCHANGED <<report_sections, provider_analysis, search, helper, peer>>

\* the source list kept in one place for all controllers
InitTopic_shared_sources(inp) ==
    /\ pc = "idle"
    /\ Has(inp, "topic")
    /\ LET data == validate_topic(inp)
       IN  /\ topic' = data.topic
           /\ page_count' = get(data, "page_count", DEFAULT_PAGE_COUNT)
           /\ source_count' = get(data, "source_count", DEFAULT_SOURCE_COUNT)
           /\ include_graphics' = get(data, "include_graphics", FALSE)
           /\ sources' = <<>>
           /\ other' = [other EXCEPT !.sources = <<>>]
           /\ graphics' = <<>>
           /\ report_sections' = <<>>
           /\ current_step' = 0
           /\ plan' = create_plan(data.topic, get(data, "page_count", DEFAULT_PAGE_COUNT))
    /\ result' = Result("init", FALSE)
    /\ pre' = PreOf(inp)
    /\ since_init' = NothingYet
    /\ UNCHANGED <<provider_analysis, search, helper, active>>

InitTopic(inp) ==
    /\ pc = "idle"
    /\ Has(inp, "topic")
    /\ LET data == validate_topic(inp)
       IN  /\ topic' = data.topic
           /\ page_count' = get(data, "page_count", DEFAULT_PAGE_COUNT)
           /\ source_count' = get(data, "source_count", DEFAULT_SOURCE_COUNT)
           /\ include_graphics' = get(data, "include_graphics", FALSE)
           /\ sources' = <<>>
           /\ graphics' = <<>>
           /\ report_sections' = <<>>
           /\ current_step' = 0
           /\ plan' = create_plan(data.topic, get(data, "page_count", DEFAULT_PAGE_COUNT))
    /\ result' = Result("init", FALSE)
    /\ pre' = PreOf(inp)
    /\ since_init' = NothingYet
    /\ UNCHANGED <<provider_analysis, search, helper, peer>>

-----------------------------------------------------------------------------
(* Text.  A content is a sequence of pieces: a run of prose without        *)
(* brackets ("W": 20 characters, "w": 5 characters), a citation token      *)
(* ("[1]", "[2]", "[3]", "[1, p. 4]"), a bracket that is no citation       *)
(* ("[x]"), a blank ("_") or a blank line ("//", the two characters \n\n). *)

Pieces == {"W", "w", "[1]", "[2]", "[3]", "[1, p. 4]", "[x]", "_", "//"}

PieceLen(x) ==
    CASE x = "W" -> 20
      [] x = "w" -> 5
      [] x \in {"[1]", "[2]", "[3]", "[x]"} -> 3
      [] x = "[1, p. 4]" -> 9
      [] x = "_" -> 1
      [] x = "//" -> 2

Whitespace == {"_", "//"}

\* re.findall(citation_regex, piece): the ids of the tokens r"\[(\d+)(?:,\s*(?:p\.|page)\s*\d+)?\]"
citation_regex(x) ==
    CASE x = "[1]" -> <<1>>
      [] x = "[2]" -> <<2>>
      [] x = "[3]" -> <<3>>
      [] x = "[1, p. 4]" -> <<1>>
      [] OTHER -> <<>>

RECURSIVE findall(_)
findall(s) == IF s = <<>> THEN <<>> ELSE citation_regex(Head(s)) \o findall(Tail(s))

RECURSIVE text_len(_)
text_len(s) == IF s = <<>> THEN 0 ELSE PieceLen(Head(s)) + text_len(Tail(s))

RECURSIVE lstrip(_)
lstrip(s) == IF s # <<>> /\ Head(s) \in Whitespace THEN lstrip(Tail(s)) ELSE s

RECURSIVE rstrip(_)
rstrip(s) ==
    IF s # <<>> /\ s[Len(s)] \in Whitespace THEN rstrip(SubSeq(s, 1, Len(s) - 1)) ELSE s

strip(s) == rstrip(lstrip(s))

\* content.split('\n\n')
RECURSIVE split(_, _)
split(s, cur) ==
    IF s = <<>> THEN <<cur>>
    ELSE IF Head(s) = "//" THEN <<cur>> \o split(Tail(s), <<>>)
    ELSE split(Tail(s), Append(cur, Head(s)))

NonBlank(p) == strip(p) # <<>>

\* [p for p in content.split('\n\n') if p.strip()]
paragraphs_of(content) == SelectSeq(split(content, <<>>), NonBlank)

IsIn(x, s) == \E i \in 1..Len(s) : s[i] = x

RECURSIVE filter_not_in(_, _)
filter_not_in(s, allowed) ==
    IF s = <<>> THEN <<>>
    ELSE (IF IsIn(Head(s), allowed) THEN <<>> ELSE <<Head(s)>>)
         \o filter_not_in(Tail(s), allowed)

-----------------------------------------------------------------------------
(* CitationVerifier                                                        *)

qualifies(paragraph) == text_len(strip(paragraph)) >= MinParagraphLen

\* a paragraph is in order as soon as it holds a token, whatever its id
paragraph_issue_any_token(i, paragraph, sources_used) ==
    LET paragraph_citations == findall(paragraph)
    IN  IF ~qualifies(paragraph) THEN <<>>
        ELSE IF paragraph_citations = <<>>
        THEN <<[index |-> i - 1, issue |-> "no citations"]>>
        ELSE <<>>

\* the issue, if any, that one paragraph adds to paragraph_issues
paragraph_issue(i, paragraph, sources_used) ==
    LET paragraph_citations == findall(paragraph)
        invalid_citations == filter_not_in(paragraph_citations, sources_used)
    IN  IF ~qualifies(paragraph) THEN <<>>
        ELSE IF paragraph_citations = <<>>
        THEN <<[index |-> i - 1, issue |-> "no citations"]>>
        ELSE IF invalid_citations # <<>>
        THEN <<[index |-> i - 1, issue |-> "invalid citations"]>>
        ELSE <<>>

RECURSIVE presence_issues(_, _, _)
presence_issues(paragraphs, i, sources_used) ==
    IF i > Len(paragraphs) THEN <<>>
    ELSE paragraph_issue(i, paragraphs[i], sources_used)
         \o presence_issues(paragraphs, i + 1, sources_used)

verify_content_has_citations(content, sources_used) ==
    IF sources_used = <<>>
    THEN [valid |-> FALSE, paragraph_issues |-> <<>>]
    ELSE LET issues == presence_issues(paragraphs_of(content), 1, sources_used)
         IN  [valid |-> issues = <<>>, paragraph_issues |-> issues]

\* the issues one paragraph adds in verify_citations: both tests are made
full_paragraph_issues(i, paragraph, sources_used) ==
    LET paragraph_citations == findall(paragraph)
        invalid_citations == filter_not_in(paragraph_citations, sources_used)
    IN  IF ~qualifies(paragraph) THEN <<>>
        ELSE (IF paragraph_citations = <<>>
              THEN <<[index |-> i - 1, issue |-> "no citations"]>> ELSE <<>>)
             \o (IF invalid_citations # <<>>
                 THEN <<[index |-> i - 1, issue |-> "invalid citations"]>> ELSE <<>>)

RECURSIVE full_issues(_, _, _)
full_issues(paragraphs, i, sources_used) ==
    IF i > Len(paragraphs) THEN <<>>
    ELSE full_paragraph_issues(i, paragraphs[i], sources_used)
         \o full_issues(paragraphs, i + 1, sources_used)

\* cited_sources: the ids cited in the paragraphs that are not skipped
RECURSIVE cited_in(_, _)
cited_in(paragraphs, i) ==
    IF i > Len(paragraphs) THEN {}
    ELSE (IF qualifies(paragraphs[i])
          THEN {findall(paragraphs[i])[k] : k \in 1..Len(findall(paragraphs[i]))}
          ELSE {})
         \cup cited_in(paragraphs, i + 1)

verify_citations(content, sources_used) ==
    LET paragraphs == paragraphs_of(content)
        cited_sources == cited_in(paragraphs, 1)
        issues == full_issues(paragraphs, 1, sources_used)
        uncited == SelectSeq(sources_used, LAMBDA x : x \notin cited_sources)
        invalid == {c \in cited_sources : ~IsIn(c, sources_used)}
    IN  [valid |-> issues = <<>> /\ uncited = <<>> /\ invalid = {},
         uncited_sources |-> uncited,
         invalid_citations |-> invalid,
         uncited_paragraphs |-> issues]

\* the ids of the citation tokens of a paragraph
ids_cited(paragraph) == {findall(paragraph)[k] : k \in 1..Len(findall(paragraph))}

\* analyze_citation_patterns; citation_frequency is kept as the two terms of
\* paragraphs_with_citations / total_paragraphs (times 100 in the code), and is
\* 0 of 0 when there is no paragraph
analyze_citation_patterns(content, sources_used) ==
    LET paragraphs == paragraphs_of(content)
        analysed == SelectSeq(paragraphs, qualifies)
        paragraphs_with_citations ==
            Len(SelectSeq(analysed, LAMBDA p : findall(p) # <<>>))
        without == Len(analysed) - paragraphs_with_citations
        multiple == Len(SelectSeq(analysed, LAMBDA p : Cardinality(ids_cited(p)) > 1))
        source_usage ==
            [id \in {sources_used[i] : i \in 1..Len(sources_used)} |->
                Cardinality({i \in 1..Len(analysed) : id \in ids_cited(analysed[i])})]
        all_sources_used == \A id \in DOMAIN source_usage : source_usage[id] > 0
        total_paragraphs == Len(paragraphs)
    IN  [valid |-> without = 0 /\ all_sources_used,
         source_usage |-> source_usage,
         citation_frequency |->
             [cited |-> IF total_paragraphs > 0 THEN paragraphs_with_citations ELSE 0,
              paragraphs |-> total_paragraphs],
         paragraphs_without_citations |-> without,
         paragraphs_with_multiple_sources |-> multiple,
         all_paragraphs_cited |-> without = 0,
         all_sources_used |-> all_sources_used]

-----------------------------------------------------------------------------
(* validate_section_data, section branch.  The outcome is the validated    *)
(* section or the ValueError raised.                                       *)

Raise(exc) == [exc |-> exc]
Return(data) == [exc |-> "none", data |-> data]

\* isinstance(x, str) and x.isdigit(), or isinstance(x, int)
is_number(x) == x.t = "int" \/ (x.t = "numstr" /\ x.v >= 0)

validate_section(inp) ==
    LET is_bibliography == IF Has(inp, "is_bibliography")
                           THEN truthy(inp.is_bibliography) ELSE FALSE
        content == IF inp.content.t \in {"absent", "none"} THEN <<>> ELSE inp.content.v
        sources_used == IF inp.sources_used.t \in {"absent", "none"}
                        THEN <<>> ELSE inp.sources_used.v
    IN  IF ~Has(inp, "section_number") \/ ~Has(inp, "total_sections")
        THEN Raise("ValueError")
        ELSE IF ~is_bibliography
                /\ (~Has(inp, "sources_used") \/ ~truthy(inp.sources_used)
                    \/ inp.sources_used.t # "list")
        THEN Raise("ValueError")
        ELSE IF ~is_number(inp.section_number) \/ ~is_number(inp.total_sections)
        THEN Raise("ValueError")
        ELSE IF inp.content.t \notin {"absent", "none", "str"}
        THEN Raise("ValueError")
        ELSE IF ~is_bibliography /\ text_len(strip(content)) < MinContentLen
        THEN Raise("ValueError")
        ELSE Return([section_number |-> inp.section_number.v,
                     total_sections |-> inp.total_sections.v,
                     title |-> IF Has(inp, "title") THEN inp.title.v
                               ELSE <<"Section", inp.section_number.v>>,
                     content |-> content,
                     is_bibliography |-> is_bibliography,
                     sources_used |-> sources_used,
                     next_section_needed |-> IF Has(inp, "next_section_needed")
                                             THEN inp.next_section_needed.v ELSE TRUE])

-----------------------------------------------------------------------------
(* Topics.  A topic is a sequence of words joined by blanks; a word is a   *)
(* plain word, the operator OR or AND, or a quoted phrase.                 *)

WordLen(w) ==
    CASE w = "rome" -> 4
      [] w = "paris" -> 5
      [] w = "art" -> 3
      [] w = "OR" -> 2
      [] w = "AND" -> 3
      [] w = "\"old rome\"" -> 10

IsQuoted(w) == w = "\"old rome\""

\* ' OR ' in topic: the word OR with a word on each side
has_or_operators(words) == \E i \in 2..(Len(words) - 1) : words[i] = "OR"

has_quote(words) == \E i \in 1..Len(words) : IsQuoted(words[i])

IsKeyword(w) == ~IsQuoted(w) /\ WordLen(w) > 3 /\ w \notin {"OR", "AND"}

\* words + quoted_phrases of strategy 3
keywords_of(words) == SelectSeq(words, IsKeyword) \o SelectSeq(words, IsQuoted)

\* [w for w in topic.split() if len(w) > 3] of search_graphics
LongWord(w) == WordLen(w) > 3
graphics_keywords_of(words) == SelectSeq(words, LongWord)

-----------------------------------------------------------------------------
(* Records of the search collaborator.  id 0 stands for a record without   *)
(* an id; the ids are ordered as the identifier strings are.               *)

Record(id, url, provider, type) == [id |-> id, url |-> url, provider |-> provider, type |-> type]

Catalogue ==
    { Record(1, "shownBy", "A", "IMAGE"),
      Record(2, "shownAt", "B", "TEXT"),
      Record(3, "none", "B", "VIDEO"),
      Record(0, "shownBy", "C", "SOUND") }

RECURSIVE SeqsUpTo(_, _)
SeqsUpTo(S, n) ==
    IF n = 0 THEN {<<>>}
    ELSE LET shorter == SeqsUpTo(S, n - 1)
         IN  shorter \cup {Append(q, x) : q \in {r \in shorter : Len(r) = n - 1}, x \in S}

\* what one call of the collaborator may answer: an exception or a list of records
Raises == [raises |-> TRUE, records |-> <<>>]
Answers(records) == [raises |-> FALSE, records |-> records]
Responses == {Raises} \cup {Answers(q) : q \in SeqsUpTo(Catalogue, MaxRecordsPerCall)}

\* process_result without the test of seen_ids
process_result_no_dedup(rec, index, seen) ==
    IF rec.id = 0 THEN [source |-> <<>>, seen |-> seen]
    ELSE IF rec.url = "none" THEN [source |-> <<>>, seen |-> seen \cup {rec.id}]
    ELSE [source |-> <<[id |-> index,
                        europeanaId |-> rec.id,
                        provider |-> rec.provider,
                        media_type |-> rec.type,
                        url |-> rec.url,
                        is_pdf |-> rec.url = "shownBy.pdf"]>>,
          seen |-> seen \cup {rec.id}]

\* process_result: the source built from one record, or nothing (None); the
\* id is marked as seen before the URL is looked at
process_result(rec, index, seen) ==
    IF rec.id = 0 THEN [source |-> <<>>, seen |-> seen]
    ELSE IF rec.id \in seen THEN [source |-> <<>>, seen |-> seen]
    ELSE IF rec.url = "none" THEN [source |-> <<>>, seen |-> seen \cup {rec.id}]
    ELSE [source |-> <<[id |-> index,
                        europeanaId |-> rec.id,
                        provider |-> rec.provider,
                        media_type |-> rec.type,
                        url |-> rec.url,
                        is_pdf |-> rec.url = "shownBy.pdf"]>>,
          seen |-> seen \cup {rec.id}]

\* for i, result in enumerate(results, start): process_result, append
RECURSIVE collect(_, _, _, _)
collect(records, index, acc, seen) ==
    IF records = <<>> THEN [all |-> acc, seen |-> seen, dup |-> FALSE]
    ELSE LET r == process_result(Head(records), index, seen)
             c == collect(Tail(records), index + 1, acc \o r.source, r.seen)
         IN  [c EXCEPT !.dup = c.dup \/ (Head(records).id # 0 /\ Head(records).id \in seen)]

\* list.sort(key=europeanaId, reverse=True): stable, descending
RECURSIVE sort_desc(_)
sort_desc(s) ==
    IF s = <<>> THEN <<>>
    ELSE LET m == CHOOSE i \in 1..Len(s) :
                    /\ \A j \in 1..Len(s) : s[j].europeanaId <= s[i].europeanaId
                    /\ \A j \in 1..(i - 1) : s[j].europeanaId < s[i].europeanaId
         IN  <<s[m]>> \o sort_desc(SubSeq(s, 1, m - 1) \o SubSeq(s, m + 1, Len(s)))

take(s, n) == SubSeq(s, 1, Min(n, Len(s)))

-----------------------------------------------------------------------------
(* ProviderDiversity                                                       *)

EmptyAnalysis == [t |-> "analysis", diverse_sources |-> FALSE, total_providers |-> 0,
                  primary_provider |-> "None", provider_distribution |-> <<>>]

count_of(srcs, p) == Cardinality({i \in 1..Len(srcs) : srcs[i].provider = p})

\* a tie won by the provider met last
analyze_provider_diversity_last_wins(srcs) ==
    IF srcs = <<>> THEN EmptyAnalysis
    ELSE LET providers == {srcs[i].provider : i \in 1..Len(srcs)}
             provider_counts == [p \in providers |-> count_of(srcs, p)]
             last == CHOOSE i \in 1..Len(srcs) :
                        /\ \A q \in providers : provider_counts[q] <= provider_counts[srcs[i].provider]
                        /\ \A j \in (i + 1)..Len(srcs) :
                              provider_counts[srcs[j].provider] < provider_counts[srcs[i].provider]
         IN  [t |-> "analysis",
              diverse_sources |-> Cardinality(providers) > 1,
              total_providers |-> Cardinality(providers),
              primary_provider |-> srcs[last].provider,
              provider_distribution |-> provider_counts]

analyze_provider_diversity(srcs) ==
    IF srcs = <<>> THEN EmptyAnalysis
    ELSE LET providers == {srcs[i].provider : i \in 1..Len(srcs)}
             provider_counts == [p \in providers |-> count_of(srcs, p)]
             \* sorted(items, key=count, reverse=True)[0]: the first provider, in
             \* order of first appearance, among those with the highest count
             first == CHOOSE i \in 1..Len(srcs) :
                        /\ \A q \in providers : provider_counts[q] <= provider_counts[srcs[i].provider]
                        /\ \A j \in 1..(i - 1) :
                              provider_counts[srcs[j].provider] < provider_counts[srcs[i].provider]
         IN  [t |-> "analysis",
              diverse_sources |-> Cardinality(providers) > 1,
              total_providers |-> Cardinality(providers),
              primary_provider |-> srcs[first].provider,
              provider_distribution |-> provider_counts]

-----------------------------------------------------------------------------
(* SourceDiscoveryEngine.  search_sources runs strategy 1 (direct), 2      *)
(* (quoted), 3 (keywords joined by OR) and 4..7 (IMAGE, VIDEO, SOUND, TEXT *)
(* filtered); search_graphics runs 1 (IMAGE), 2 (keywords, IMAGE), 3       *)
(* (VIDEO) and 4 (SOUND).  Each is one search_with_retry call.             *)

LastSourceStrategy == 7
LastGraphicsStrategy == 4

topic_words == topic.v

\* the strategies run whatever has been collected
source_strategy_runs_uncounted(k, collected) ==
    /\ ~has_or_operators(topic_words)
    /\ (k = 2 => ~has_quote(topic_words))
    /\ (k = 3 => keywords_of(topic_words) # <<>>)

\* whether search_sources runs strategy k, given what it has collected
source_strategy_runs(k, collected) ==
    /\ collected < source_count
    /\ ~has_or_operators(topic_words)
    /\ (k = 2 => ~has_quote(topic_words))
    /\ (k = 3 => keywords_of(topic_words) # <<>>)

graphics_strategy_runs(k, collected) ==
    /\ collected < GraphicsCount
    /\ (k = 2 => graphics_keywords_of(topic_words) # <<>>)

strategy_runs(mode, k, collected) ==
    IF mode = "sources" THEN source_strategy_runs(k, collected)
    ELSE graphics_strategy_runs(k, collected)

last_strategy(mode) == IF mode = "sources" THEN LastSourceStrategy ELSE LastGraphicsStrategy

RECURSIVE next_strategy(_, _, _)

\* the strategies started over while the discovery is short
next_strategy_restarts(mode, k, collected) ==
    IF k >= last_strategy(mode)
    THEN IF strategy_runs(mode, last_strategy(mode), collected) THEN 1 ELSE 0
    ELSE IF strategy_runs(mode, k + 1, collected) THEN k + 1
    ELSE next_strategy(mode, k + 1, collected)

\* the next strategy to run after strategy k, or 0 when discovery is over
next_strategy(mode, k, collected) ==
    IF k >= last_strategy(mode) THEN 0
    ELSE IF strategy_runs(mode, k + 1, collected) THEN k + 1
    ELSE next_strategy(mode, k + 1, collected)

\* time.sleep(2 ** attempt): the wait after a failed attempt that is not the last
backoff_fixed(k) == 2

backoff(k) == 2 ^ k

\* nothing slept
NoWait == [call |-> 0, failed |-> 0]

\* the end of search_sources: sort, truncate
final_results(all) ==
    LET sorted == sort_desc(all)
    IN  IF source_count > 0 THEN take(sorted, source_count) ELSE sorted

final_graphics(all) == take(sort_desc(all), GraphicsCount)

\* " OR ".join(keywords)
RECURSIVE join_or(_)
join_or(ks) ==
    IF Len(ks) <= 1 THEN ks ELSE <<Head(ks), "OR">> \o join_or(Tail(ks))

media_types == <<"IMAGE", "VIDEO", "SOUND", "TEXT">>

Query(words, quoted, type) == [words |-> words, quoted |-> quoted, type |-> type]

\* the query strategy k of search_sources hands to search_with_retry
source_query(k) ==
    CASE k = 1 -> Query(topic_words, FALSE, "none")
      [] k = 2 -> Query(topic_words, TRUE, "none")
      [] k = 3 -> Query(join_or(keywords_of(topic_words)), FALSE, "none")
      [] OTHER -> Query(topic_words, FALSE, media_types[k - 3])

\* the query strategy k of search_graphics hands to search_with_retry
graphics_query(k) ==
    CASE k = 1 -> Query(topic_words, FALSE, "IMAGE")
      [] k = 2 -> Query(join_or(graphics_keywords_of(topic_words)), FALSE, "IMAGE")
      [] k = 3 -> Query(topic_words, FALSE, "VIDEO")
      [] OTHER -> Query(topic_words, FALSE, "SOUND")

-----------------------------------------------------------------------------
(* process_section: the search request                                     *)

EmptyDict == [t |-> "emptydict"]

\* no helper is called on its own
NoCall == [fn |-> "none"]

Idle ==
    /\ pc' = "idle"
    /\ strat' = 0
    /\ attempt' = 0
    /\ all_results' = <<>>
    /\ seen_ids' = {}

StartDiscovery(mode) ==
    /\ pc' = mode
    /\ strat' = 1
    /\ attempt' = 0
    /\ all_results' = <<>>
    /\ seen_ids' = {}

IsSearchRequest(inp) == ~Has(inp, "topic") /\ truthy(inp.search_sources)

\* not self.topic
no_topic == topic = NoTopic \/ topic.v = <<>>

\* a search request that goes to the collaborator whatever the topic
SearchSources_unguarded(inp) ==
    /\ pc = "idle"
    /\ IsSearchRequest(inp)
    /\ pre' = PreOf(inp)
    /\ StartDiscovery("sources")
    /\ skipped_duplicate' = FALSE
    /\ gave_up' = -1
    /\ waited' = NoWait
    /\ UNCHANGED <<session, result>>
    /\ UNCHANGED <<since_init, helper, peer>>

SearchSources(inp) ==
    /\ pc = "idle"
    /\ IsSearchRequest(inp)
    /\ pre' = PreOf(inp)
    /\ IF no_topic
       THEN /\ result' = Result("no_topic", FALSE)
            /\ UNCHANGED <<session, search>>
       ELSE /\ StartDiscovery("sources")
            /\ skipped_duplicate' = FALSE
            /\ gave_up' = -1
            /\ waited' = NoWait
            /\ UNCHANGED <<session, result>>
    /\ UNCHANGED <<since_init, helper, peer>>

\* the step set before the zero check
SourcesFound_step_first(all) ==
    LET final == final_results(all)
    IN  /\ provider_analysis' = analyze_provider_diversity(final)
        /\ sources' = final
        /\ IF final = <<>>
           THEN /\ current_step' = 1
                /\ result' = Result("no_sources", TRUE)
                /\ Idle
                /\ UNCHANGED <<graphics, since_init>>
           ELSE IF include_graphics
           THEN /\ StartDiscovery("graphics")
                /\ UNCHANGED <<graphics, current_step, result, since_init>>
           ELSE /\ current_step' = 1
                /\ since_init' = [since_init EXCEPT !.searched = TRUE]
                /\ result' = Result("search_ok", FALSE)
                /\ Idle
                /\ UNCHANGED graphics
        /\ UNCHANGED <<topic, page_count, source_count, include_graphics,
                       report_sections, plan, pre>>

\* search_sources has returned: self.sources is set, then the zero check,
\* the graphics search if asked for, and the step
SourcesFound(all) ==
    LET final == final_results(all)
    IN  /\ provider_analysis' = analyze_provider_diversity(final)
        /\ sources' = final
        /\ IF final = <<>>
           THEN /\ result' = Result("no_sources", TRUE)
                /\ Idle
                /\ UNCHANGED <<graphics, current_step, since_init>>
           ELSE IF include_graphics
           THEN /\ StartDiscovery("graphics")
                /\ UNCHANGED <<graphics, current_step, result, since_init>>
           ELSE /\ current_step' = 1
                /\ since_init' = [since_init EXCEPT !.searched = TRUE]
                /\ result' = Result("search_ok", FALSE)
                /\ Idle
                /\ UNCHANGED graphics
        /\ UNCHANGED <<topic, page_count, source_count, include_graphics,
                       report_sections, plan, pre>>

GraphicsFound(all) ==
    /\ graphics' = final_graphics(all)
    /\ current_step' = 1
    /\ since_init' = [since_init EXCEPT !.searched = TRUE]
    /\ result' = Result("search_ok", FALSE)
    /\ Idle
    /\ UNCHANGED <<topic, page_count, source_count, include_graphics, sources,
                   report_sections, plan, provider_analysis, pre>>

\* the running strategy is over (its records processed, or its last attempt
\* failed): go to the next strategy that runs, or end the discovery
StrategyDone(all, seen) ==
    LET n == next_strategy(pc, strat, Len(all))
    IN  IF n # 0
        THEN /\ strat' = n
             /\ attempt' = 0
             /\ all_results' = all
             /\ seen_ids' = seen
             /\ UNCHANGED <<pc, session, result, pre, since_init>>
        ELSE IF pc = "sources" THEN SourcesFound(all) ELSE GraphicsFound(all)

\* a strategy that runs out of attempts ends the discovery with nothing
SearchAttempt_fatal(resp) ==
    /\ pc \in {"sources", "graphics"}
    /\ IF resp.raises
       THEN /\ UNCHANGED skipped_duplicate
            /\ IF attempt = max_retries - 1
               THEN /\ gave_up' = Len(all_results)
                    /\ waited' = [call |-> 0, failed |-> waited.call]
                    /\ IF pc = "sources" THEN SourcesFound(<<>>) ELSE GraphicsFound(<<>>)
               ELSE /\ attempt' = attempt + 1
                    /\ waited' = [waited EXCEPT !.call = @ + backoff(attempt)]
                    /\ UNCHANGED <<pc, strat, all_results, seen_ids, session, result, pre,
                                   since_init, gave_up>>
       ELSE LET start == IF strat = 1 THEN 1 ELSE Len(all_results) + 1
                c == collect(resp.records, start, all_results, seen_ids)
            IN  /\ skipped_duplicate' = (skipped_duplicate \/ c.dup)
                /\ UNCHANGED gave_up
                /\ waited' = [waited EXCEPT !.call = 0]
                /\ StrategyDone(c.all, c.seen)
    /\ UNCHANGED <<helper, peer>>

\* one attempt of search_with_retry on the collaborator
SearchAttempt(resp) ==
    /\ pc \in {"sources", "graphics"}
    /\ IF resp.raises
       THEN /\ UNCHANGED skipped_duplicate
            /\ IF attempt = max_retries - 1
               THEN /\ gave_up' = Len(all_results)
                    /\ waited' = [call |-> 0, failed |-> waited.call]
                    /\ StrategyDone(all_results, seen_ids)
               ELSE /\ attempt' = attempt + 1
                    /\ waited' = [waited EXCEPT !.call = @ + backoff(attempt)]
                    /\ UNCHANGED <<pc, strat, all_results, seen_ids, session, result, pre,
                                   since_init, gave_up>>
       ELSE LET start == IF strat = 1 THEN 1 ELSE Len(all_results) + 1
                c == collect(resp.records, start, all_results, seen_ids)
            IN  /\ skipped_duplicate' = (skipped_duplicate \/ c.dup)
                /\ UNCHANGED gave_up
                /\ waited' = [waited EXCEPT !.call = 0]
                /\ StrategyDone(c.all, c.seen)
    /\ UNCHANGED <<helper, peer>>

-----------------------------------------------------------------------------
(* process_section: confirmation, section submission, the except clauses   *)

\* process_section with the except ValueError clause alone
process_section_returns_value_errors_only(exc, returned) ==
    IF exc = "none" THEN returned
    ELSE IF exc = "ValueError" THEN Result("validation_error", TRUE)
    ELSE [Result("raised", FALSE) EXCEPT !.escaped = TRUE]

\* the record process_section returns when its body ends with exception exc
\* (ValueError, or any other Exception) or, with none, with the given record
process_section_returns(exc, returned) ==
    IF exc = "none" THEN returned
    ELSE IF exc = "ValueError" THEN Result("validation_error", TRUE)
    ELSE Result("unexpected_error", TRUE)

IsConfirmation(inp) ==
    ~Has(inp, "topic") /\ ~truthy(inp.search_sources) /\ Has(inp, "confirm_sources")

ConfirmSources(inp) ==
    /\ pc = "idle"
    /\ IsConfirmation(inp)
    /\ pre' = PreOf(inp)
    /\ IF truthy(inp.confirm_sources)
       THEN /\ current_step' = 2
            /\ since_init' = [since_init EXCEPT !.confirmed = TRUE]
            /\ result' = Result("confirmed", FALSE)
            /\ UNCHANGED <<topic, page_count, source_count, include_graphics, sources,
                           graphics, report_sections, plan, provider_analysis, search>>
       ELSE \* validated_input is {'confirm_sources': False}: no sources_used
            /\ result' = Result("no_sources_cited", TRUE)
            /\ UNCHANGED <<session, search, since_init>>
    /\ UNCHANGED <<helper, peer>>

IsSubmission(inp) ==
    ~Has(inp, "topic") /\ ~truthy(inp.search_sources) /\ ~Has(inp, "confirm_sources")

\* the presence check alone, without verify_citations
citation_verdict_presence_only(d) ==
    IF d.is_bibliography THEN "none"
    ELSE IF d.sources_used = <<>> THEN "no_sources_cited"
    ELSE IF ~verify_content_has_citations(d.content, d.sources_used).valid
    THEN "content_invalid"
    ELSE "none"

\* why the citation checks turn the validated section down, or "none"
citation_verdict(d) ==
    IF d.is_bibliography THEN "none"
    ELSE IF d.sources_used = <<>> THEN "no_sources_cited"
    ELSE IF ~verify_content_has_citations(d.content, d.sources_used).valid
    THEN "content_invalid"
    ELSE IF ~verify_citations(d.content, d.sources_used).valid
    THEN "citation_invalid"
    ELSE "none"

\* what is raised after the section has been appended: plan["sections"][n]
\* below the list, the division of the progress
raised_after_append(section) ==
    IF plan # NoPlan /\ section.section_number < 0 - Len(plan.sections)
    THEN "IndexError"
    ELSE IF section.total_sections = 0 THEN "ZeroDivisionError"
    ELSE "none"

\* stubs[n] as Python indexes a list: from 0, a negative n from the end
item(stubs, n) == IF n >= 0 THEN stubs[n + 1] ELSE stubs[Len(stubs) + n + 1]

\* nextStep of the response to an accepted section
next_step(section) ==
    IF plan # NoPlan
    THEN IF section.section_number < Len(plan.sections)
         THEN IF section.section_number < 0 - Len(plan.sections) THEN NoStep
              ELSE [kind |-> "create", number |-> section.section_number + 1,
                    title |-> item(plan.sections, section.section_number).title]
         ELSE [kind |-> "complete", number |-> 0, title |-> <<>>]
    ELSE IF section.next_section_needed
    THEN [kind |-> "continue", number |-> 0, title |-> <<>>]
    ELSE [kind |-> "complete", number |-> 0, title |-> <<>>]

\* progress of the response: len(self.report_sections) / total_sections, the
\* quotient kept as its two terms (times 100 in the response)
progress(section, recorded) == [sections |-> recorded, total |-> section.total_sections]

\* the response to an accepted section
accepted(section, recorded) ==
    [Result("section_ok", FALSE) EXCEPT !.next_step = next_step(section),
                                        !.progress = progress(section, recorded)]

\* the validated section, total_sections raised to section_number if it is less
healed(d) ==
    [d EXCEPT !.total_sections =
        IF d.section_number > d.total_sections THEN d.section_number ELSE d.total_sections]

\* the section appended as it was validated
record_section_as_submitted(d) ==
    /\ Len(report_sections) < MaxSections
    /\ report_sections' = Append(report_sections, d)
    /\ plan' = IF plan = NoPlan THEN plan
               ELSE [plan EXCEPT !.current_section = d.section_number]
    /\ result' = process_section_returns(raised_after_append(d),
                                         accepted(d, Len(report_sections) + 1))

record_section(d) ==
    LET section == healed(d)
    IN  /\ Len(report_sections) < MaxSections
        /\ report_sections' = Append(report_sections, section)
        /\ plan' = IF plan = NoPlan THEN plan
                   ELSE [plan EXCEPT !.current_section = section.section_number]
        /\ result' = process_section_returns(raised_after_append(section),
                                             accepted(section, Len(report_sections) + 1))

\* a submission that drops the graphics it has shown
section_frame_drops_graphics ==
    /\ graphics' = <<>>
    /\ UNCHANGED <<topic, page_count, source_count, include_graphics, sources,
                   current_step, provider_analysis, search, since_init, helper, peer>>

\* what the section branch assigns nothing to
section_frame ==
    UNCHANGED <<topic, page_count, source_count, include_graphics, sources,
                graphics, current_step, provider_analysis, search, since_init, helper, peer>>

SubmitSection(inp) ==
    /\ pc = "idle"
    /\ IsSubmission(inp)
    /\ pre' = PreOf(inp)
    /\ LET v == validate_section(inp)
       IN  IF v.exc # "none"
           THEN /\ result' = process_section_returns(v.exc, Result("none", FALSE))
                /\ UNCHANGED <<report_sections, plan>>
           ELSE IF citation_verdict(v.data) # "none"
           THEN /\ result' = Result(citation_verdict(v.data), TRUE)
                /\ UNCHANGED <<report_sections, plan>>
           ELSE record_section(v.data)
    /\ section_frame

\* an input that is no dictionary: validate_section_data raises ValueError
SubmitNonDict ==
    /\ pc = "idle"
    /\ pre' = Began("nondict")
    /\ result' = process_section_returns("ValueError", Result("none", FALSE))
    /\ UNCHANGED <<session, search, since_init, helper, peer>>

-----------------------------------------------------------------------------
\* a controller as __init__ leaves it, no call running
New ==
    [topic |-> NoTopic, page_count |-> DEFAULT_PAGE_COUNT,
     source_count |-> DEFAULT_SOURCE_COUNT, include_graphics |-> FALSE,
     sources |-> <<>>, graphics |-> <<>>, report_sections |-> <<>>, plan |-> NoPlan,
     current_step |-> 0, provider_analysis |-> EmptyDict,
     pc |-> "idle", strat |-> 0, attempt |-> 0, all_results |-> <<>>, seen_ids |-> {},
     result |-> Result("none", FALSE),
     pre |-> [call |-> "none", had_sources |-> FALSE, had_graphics |-> FALSE,
              had_sections |-> FALSE],
     skipped_duplicate |-> FALSE, gave_up |-> -1, waited |-> NoWait,
     since_init |-> NothingYet]

\* the controller the variables describe, as a record
Whole ==
    [topic |-> topic, page_count |-> page_count, source_count |-> source_count,
     include_graphics |-> include_graphics, sources |-> sources, graphics |-> graphics,
     report_sections |-> report_sections, plan |-> plan, current_step |-> current_step,
     provider_analysis |-> provider_analysis,
     pc |-> pc, strat |-> strat, attempt |-> attempt, all_results |-> all_results,
     seen_ids |-> seen_ids, result |-> result, pre |-> pre,
     skipped_duplicate |-> skipped_duplicate, gave_up |-> gave_up, waited |-> waited,
     since_init |-> since_init]

\* the next step is a step of the other controller: the two change places
Switch ==
    /\ other' = Whole
    /\ active' = 3 - active
    /\ topic' = other.topic
    /\ page_count' = other.page_count
    /\ source_count' = other.source_count
    /\ include_graphics' = other.include_graphics
    /\ sources' = other.sources
    /\ graphics' = other.graphics
    /\ report_sections' = other.report_sections
    /\ plan' = other.plan
    /\ current_step' = other.current_step
    /\ provider_analysis' = other.provider_analysis
    /\ pc' = other.pc
    /\ strat' = other.strat
    /\ attempt' = other.attempt
    /\ all_results' = other.all_results
    /\ seen_ids' = other.seen_ids
    /\ result' = other.result
    /\ pre' = other.pre
    /\ skipped_duplicate' = other.skipped_duplicate
    /\ gave_up' = other.gave_up
    /\ waited' = other.waited
    /\ since_init' = other.since_init
    /\ UNCHANGED helper

Constructed ==
    /\ topic = NoTopic
    /\ page_count = DEFAULT_PAGE_COUNT
    /\ source_count = DEFAULT_SOURCE_COUNT
    /\ include_graphics = FALSE
    /\ sources = <<>>
    /\ graphics = <<>>
    /\ report_sections = <<>>
    /\ plan = NoPlan
    /\ current_step = 0
    /\ provider_analysis = EmptyDict
    /\ pc = "idle"
    /\ strat = 0
    /\ attempt = 0
    /\ all_results = <<>>
    /\ seen_ids = {}
    /\ result = Result("none", FALSE)
    /\ pre = [call |-> "none", had_sources |-> FALSE, had_graphics |-> FALSE,
              had_sections |-> FALSE]
    /\ skipped_duplicate = FALSE
    /\ gave_up = -1
    /\ waited = NoWait
    /\ since_init = NothingYet
    /\ other = New
    /\ active = 1

Init ==
    /\ Constructed
    /\ args = NoCall
    /\ returns = NoCall

-----------------------------------------------------------------------------
(* Inputs of process_section                                               *)

NoInput == [topic |-> Absent, page_count |-> Absent, source_count |-> Absent,
            include_graphics |-> Absent, search_sources |-> Absent,
            confirm_sources |-> Absent, section_number |-> Absent,
            total_sections |-> Absent, title |-> Absent, content |-> Absent,
            is_bibliography |-> Absent, sources_used |-> Absent,
            next_section_needed |-> Absent]

TopicInput(words, pages, count, gfx) ==
    [NoInput EXCEPT !.topic = Str(words), !.page_count = pages,
                    !.source_count = count, !.include_graphics = gfx]

SearchInput == [NoInput EXCEPT !.search_sources = Bool(TRUE)]

ConfirmInput(b) == [NoInput EXCEPT !.confirm_sources = Bool(b)]

SectionInput(n, total, content, used, bib) ==
    [NoInput EXCEPT !.section_number = n, !.total_sections = total,
                    !.content = content, !.sources_used = used,
                    !.is_bibliography = bib]

-----------------------------------------------------------------------------
(* Workflow specification: every kind of call, in any order, on a few      *)
(* inputs of each kind.                                                    *)

TopicInputs ==
    { TopicInput(<<"rome">>, IntV(1), IntV(2), Bool(TRUE)),
      TopicInput(<<"rome", "OR", "paris">>, NumStr(2), IntV(1), Absent),
      TopicInput(<<>>, Text, Absent, Absent) }

SectionInputs ==
    { SectionInput(IntV(1), IntV(2), Str(<<"W", "[1]">>), List(<<1>>), Absent),
      SectionInput(IntV(3), IntV(1), Str(<<"W", "[1]", "//", "W", "[2]">>), List(<<1, 2>>), Bool(FALSE)),
      SectionInput(NumStr(1), IntV(2), Str(<<"W">>), Absent, Bool(TRUE)),
      SectionInput(IntV(0), IntV(0), Str(<<"W">>), Absent, Bool(TRUE)),
      SectionInput(IntV(2), IntV(2), Str(<<"W">>), List(<<1>>), Absent),
      SectionInput(IntV(2), IntV(2), Str(<<"W", "[1]">>), List(<<1, 2>>), Absent),
      SectionInput(IntV(2), IntV(2), Str(<<"w">>), List(<<1>>), Absent),
      SectionInput(IntV(2), Absent, Str(<<"W", "[1]">>), List(<<1>>), Absent),
      SectionInput(IntV(2), IntV(2), Str(<<"W", "[1]">>), Absent, Absent) }

WorkflowResponses ==
    { Raises, Answers(<<>>),
      Answers(<<Record(2, "shownAt", "A", "TEXT"), Record(4, "shownBy.pdf", "B", "TEXT")>>) }

Next ==
    \/ \E inp \in TopicInputs : InitTopic(inp)
    \/ SearchSources(SearchInput)
    \/ \E resp \in WorkflowResponses : SearchAttempt(resp)
    \/ \E b \in BOOLEAN : ConfirmSources(ConfirmInput(b))
    \/ \E inp \in SectionInputs : SubmitSection(inp)
    \/ SubmitNonDict

Spec == Init /\ [][Next]_vars

-----------------------------------------------------------------------------
(* Discovery specification: initializations and search requests, the       *)
(* collaborator answering each attempt with an exception or with any list  *)
(* of at most MaxRecordsPerCall records of the catalogue.                  *)

DiscoveryTopicInputs ==
    { TopicInput(<<"rome">>, Absent, IntV(2), Absent),
      TopicInput(<<"rome", "OR", "paris">>, Absent, IntV(1), Absent),
      TopicInput(<<"\"old rome\"", "AND", "art">>, Absent, IntV(2), Absent),
      TopicInput(<<"art">>, Absent, IntV(0), Absent),
      TopicInput(<<"rome", "AND", "paris">>, Absent, IntV(1), Absent) }

NextDiscovery ==
    \/ \E inp \in DiscoveryTopicInputs : InitTopic(inp)
    \/ SearchSources(SearchInput)
    \/ \E resp \in Responses : SearchAttempt(resp)

SpecDiscovery == Init /\ [][NextDiscovery]_vars

\* the collaborator answers or raises on every call made to it
SpecDiscoveryFair ==
    SpecDiscovery /\ WF_vars(\E resp \in Responses : SearchAttempt(resp))

-----------------------------------------------------------------------------
(* Authoring specification: section submissions over many contents and     *)
(* sources_used lists, with and without a plan.                            *)

Contents ==
    { <<>>, <<"w">>, <<"w", "w">>, <<"W">>, <<"W", "[1]">>, <<"W", "[2]">>,
      <<"W", "[3]">>, <<"W", "[x]">>, <<"W", "[1, p. 4]">>,
      <<"W", "[1]", "[2]">>, <<"W", "[1]", "[3]">>,
      <<"W", "[1]", "//", "W">>, <<"W", "[1]", "//", "W", "[2]">>,
      <<"W", "[1]", "//", "w", "[2]">>, <<"w", "[2]", "//", "W", "[1]">>,
      <<"w", "w", "w", "[1]">>, <<"w", "w", "w", "w">>,
      <<"[1]", "w", "w", "w", "_">>, <<"_", "w", "w", "w", "w", "_">>,
      <<"_", "W", "[1]", "_", "//", "_", "//", "w">> }

SourcesUsed == {Absent, List(<<>>), List(<<1>>), List(<<1, 2>>)}

AuthoringInputs ==
    { SectionInput(IntV(1), IntV(2), Str(c), used, Absent) :
        c \in Contents, used \in SourcesUsed }
    \cup { SectionInput(n, IntV(2), Str(<<"w">>), Absent, Bool(TRUE)) :
             n \in {IntV(1), NumStr(2), Text} }
    \cup { SectionInput(IntV(n), IntV(t), Str(<<"w">>), Absent, Bool(TRUE)) :
             n \in {-1, 3, 4}, t \in {-1, 1} }
    \cup { SectionInput(IntV(1), IntV(1), Str(<<"W", "[1]">>), List(<<1>>), Absent) }
    \cup { SectionInput(IntV(2), IntV(1), IntV(7), List(<<1>>), Absent),
           SectionInput(IntV(2), IntV(1), Str(<<"W", "[1]">>), Text, Bool(FALSE)),
           SectionInput(IntV(2), IntV(1), Str(<<"W", "[2]">>), List(<<2>>), Bool(FALSE)) }

NextAuthoring ==
    \/ InitTopic(TopicInput(<<"rome">>, IntV(1), Absent, Absent))
    \/ \E inp \in AuthoringInputs : SubmitSection(inp)

SpecAuthoring == Init /\ [][NextAuthoring]_vars

-----------------------------------------------------------------------------
(* Planner specification: initializations over the whole range of page     *)
(* counts.                                                                 *)

PlanInputs ==
    { [topic |-> Str(<<"rome">>), page_count |-> p, source_count |-> Absent,
       include_graphics |-> Absent] :
        p \in {Absent, None, Text} \cup {IntV(n) : n \in -3..MaxPageCount}
                \cup {NumStr(n) : n \in {-1, 0, 2}} }

NextPlan == \E inp \in PlanInputs : InitTopic(inp)

SpecPlan == Init /\ [][NextPlan]_vars

-----------------------------------------------------------------------------
(* Verifier specification: the two citation checks called on their own, on *)
(* every content of at most MaxContentPieces pieces and on the contents of *)
(* the authoring specification, against a few sources_used lists.          *)

VerifierContents ==
    SeqsUpTo(Pieces, MaxContentPieces) \cup Contents
    \cup { <<"W", "//", "W", "[3]", "[3]">>, <<"W", "[1]", "//", "[3]">>,
           <<"w", "[3]", "//", "W", "[1]", "[2]">> }

VerifierSourcesUsed == { <<>>, <<1>>, <<2>>, <<1, 2>>, <<2, 1>> }

VerifierArgs ==
    { [fn |-> "verify", content |-> c, sources_used |-> u] :
        c \in VerifierContents, u \in VerifierSourcesUsed }

InitVerifier ==
    /\ Constructed
    /\ args \in VerifierArgs
    /\ returns = NoCall

CallVerifyContentHasCitations ==
    /\ args.fn = "verify"
    /\ returns' = [fn |-> "_verify_content_has_citations",
                   value |-> verify_content_has_citations(args.content, args.sources_used)]
    /\ UNCHANGED <<session, search, result, pre, since_init, args, peer>>

CallVerifyCitations ==
    /\ args.fn = "verify"
    /\ returns' = [fn |-> "verify_citations",
                   value |-> verify_citations(args.content, args.sources_used)]
    /\ UNCHANGED <<session, search, result, pre, since_init, args, peer>>

CallAnalyzeCitationPatterns ==
    /\ args.fn = "verify"
    /\ returns' = [fn |-> "analyze_citation_patterns",
                   value |-> analyze_citation_patterns(args.content, args.sources_used)]
    /\ UNCHANGED <<session, search, result, pre, since_init, args, peer>>

NextVerifier ==
    \/ CallVerifyContentHasCitations
    \/ CallVerifyCitations
    \/ CallAnalyzeCitationPatterns

SpecVerifier == InitVerifier /\ [][NextVerifier]_vars

-----------------------------------------------------------------------------
(* Provider specification: _analyze_provider_diversity called on its own,  *)
(* on every source list of at most MaxSourceList sources of three          *)
(* providers.                                                              *)

Providers == {"A", "B", "C"}

SourceOf(k, provider) ==
    [id |-> k, europeanaId |-> k, provider |-> provider, media_type |-> "TEXT",
     url |-> "shownBy", is_pdf |-> FALSE]

SourceLists ==
    { [k \in 1..Len(q) |-> SourceOf(k, q[k])] : q \in SeqsUpTo(Providers, MaxSourceList) }

InitProviders ==
    /\ Constructed
    /\ args \in { [fn |-> "analyze", sources |-> l] : l \in SourceLists }
    /\ returns = NoCall

CallAnalyzeProviderDiversity ==
    /\ args.fn = "analyze"
    /\ returns = NoCall
    /\ returns' = [fn |-> "_analyze_provider_diversity",
                   value |-> analyze_provider_diversity(args.sources)]
    /\ UNCHANGED <<session, search, result, pre, since_init, args, peer>>

NextProviders == CallAnalyzeProviderDiversity

SpecProviders == InitProviders /\ [][NextProviders]_vars

-----------------------------------------------------------------------------
(* Dispatch specification: process_section on inputs that hold the fields  *)
(* of several kinds of call at once.                                       *)

\* process_section on a dictionary: the branch its presence rules pick
process_section(inp) ==
    \/ InitTopic(inp)
    \/ SearchSources(inp)
    \/ ConfirmSources(inp)
    \/ SubmitSection(inp)

BibliographyFields(inp) ==
    [inp EXCEPT !.section_number = IntV(1), !.total_sections = IntV(2),
                !.is_bibliography = Bool(TRUE)]

ContentFields(inp) ==
    [inp EXCEPT !.section_number = IntV(2), !.total_sections = IntV(2),
                !.content = Str(<<"W", "[1]">>), !.sources_used = List(<<1>>)]

DispatchInputs ==
    { TopicInput(<<"rome">>, Absent, IntV(1), Absent),
      BibliographyFields([TopicInput(<<"paris">>, Absent, IntV(1), Absent)
                            EXCEPT !.search_sources = Bool(TRUE),
                                   !.confirm_sources = Bool(TRUE)]),
      SearchInput,
      ContentFields([SearchInput EXCEPT !.confirm_sources = Bool(TRUE)]),
      BibliographyFields([NoInput EXCEPT !.search_sources = Bool(FALSE)]),
      ConfirmInput(TRUE),
      ConfirmInput(FALSE),
      BibliographyFields(ConfirmInput(TRUE)),
      BibliographyFields(ConfirmInput(FALSE)),
      ContentFields(ConfirmInput(FALSE)),
      BibliographyFields(NoInput),
      ContentFields(NoInput) }

NextDispatch ==
    \/ \E inp \in DispatchInputs : process_section(inp)
    \/ \E resp \in WorkflowResponses : SearchAttempt(resp)

SpecDispatch == Init /\ [][NextDispatch]_vars

-----------------------------------------------------------------------------
(* Two-controller specification: calls on two controller instances, their  *)
(* steps interleaved in any order.                                         *)

TwoTopicInputs ==
    { TopicInput(<<"rome", "OR", "paris">>, Absent, IntV(1), Absent),
      TopicInput(<<"paris", "OR", "rome">>, Absent, IntV(2), Absent) }

TwoResponses == { Answers(<<>>), Answers(<<Record(1, "shownBy", "A", "IMAGE")>>) }

NextTwo ==
    \/ \E inp \in TwoTopicInputs : InitTopic(inp)
    \/ SearchSources(SearchInput)
    \/ \E resp \in TwoResponses : SearchAttempt(resp)
    \/ ConfirmSources(ConfirmInput(TRUE))
    \/ SubmitSection(SectionInput(IntV(1), IntV(2), Absent, Absent, Bool(TRUE)))
    \/ Switch

SpecTwo == Init /\ [][NextTwo]_vars

-----------------------------------------------------------------------------
(* Graphics specification: discoveries of sources and then of graphics,    *)
(* the collaborator answering each attempt with an exception, with nothing *)
(* or with one record of the catalogue.                                    *)

GraphicsTopicInputs ==
    { TopicInput(<<"rome", "paris">>, Absent, IntV(1), Bool(TRUE)),
      TopicInput(<<"art">>, Absent, IntV(1), Bool(TRUE)),
      TopicInput(<<"rome">>, Absent, IntV(2), Bool(FALSE)) }

GraphicsResponses == {Raises, Answers(<<>>)} \cup {Answers(<<rec>>) : rec \in Catalogue}

NextGraphics ==
    \/ \E inp \in GraphicsTopicInputs : InitTopic(inp)
    \/ SearchSources(SearchInput)
    \/ \E resp \in GraphicsResponses : SearchAttempt(resp)

SpecGraphics == Init /\ [][NextGraphics]_vars

-----------------------------------------------------------------------------
(* Properties                                                              *)

ToSet(s) == {s[i] : i \in 1..Len(s)}

NonBibliography(i) == ~report_sections[i].is_bibliography

\* the citation contract of a content against a sources_used list; a
\* paragraph's length is that of its text without surrounding blanks
CitationContract(content, used) ==
    /\ used # <<>>
    /\ \A k \in 1..Len(paragraphs_of(content)) :
          LET p == paragraphs_of(content)[k]
          IN  text_len(strip(p)) >= 20 =>
                 /\ findall(p) # <<>>
                 /\ ToSet(findall(p)) \subseteq ToSet(used)
    /\ ToSet(used) \subseteq ToSet(findall(content))

\* C1: every non-bibliography section held in report_sections satisfies the
\* citation contract against its own sources_used: the list is not empty,
\* every paragraph of 20 or more characters holds a citation token and only
\* tokens whose id is in sources_used, and every id of sources_used is cited.
C1_StoredSectionsCited ==
    \A i \in 1..Len(report_sections) :
        NonBibliography(i) =>
            CitationContract(report_sections[i].content, report_sections[i].sources_used)

\* two recorded content sections, one of two paragraphs citing two sources,
\* one whose short paragraph is exempt
C1_Witness ==
    /\ Len(report_sections) = 2
    /\ NonBibliography(1) /\ NonBibliography(2)
    /\ report_sections[1].content = <<"W", "[1]", "//", "W", "[2]">>
    /\ report_sections[1].sources_used = <<1, 2>>
    /\ report_sections[2].content = <<"_", "W", "[1]", "_", "//", "_", "//", "w">>

\* C2: a call whose input holds the key topic ends with no sources, no
\* graphics, no sections, _current_step 0 and a freshly built plan whose
\* current_section is 0, whatever the session held before.
C2_TopicResets ==
    (pc = "idle" /\ pre.call = "topic") =>
        /\ sources = <<>>
        /\ graphics = <<>>
        /\ report_sections = <<>>
        /\ current_step = 0
        /\ plan # NoPlan
        /\ plan.current_section = 0
        /\ plan = create_plan(topic, page_count)

\* an initialization of a session that held sources, graphics and sections
C2_Witness ==
    /\ pc = "idle"
    /\ pre.call = "topic"
    /\ pre.had_sources /\ pre.had_graphics /\ pre.had_sections

\* C3: a section submission, accepted or rejected, leaves the sources, the
\* graphics, the topic and the requested counts as they were.
C3_SubmissionKeepsSources ==
    [][pre'.call = "section" =>
          /\ sources' = sources
          /\ graphics' = graphics
          /\ topic' = topic
          /\ page_count' = page_count
          /\ source_count' = source_count]_vars

\* a section accepted, and a section rejected, in a session holding sources
\* and graphics
C3_Witness ==
    /\ pre.call = "section"
    /\ sources # <<>> /\ graphics # <<>>
    /\ result.kind = "citation_invalid"
    /\ report_sections # <<>>

NoTwoAlike(s) == \A i, j \in 1..Len(s) : i # j => s[i].europeanaId # s[j].europeanaId

\* C4: the list search_sources returns never holds two sources with the
\* same europeanaId, whatever the collaborator answers.
C4_NoDuplicateOrigin == NoTwoAlike(sources) /\ NoTwoAlike(all_results)

\* a discovery that met a record again and returned two sources
C4_Witness ==
    /\ pc = "idle"
    /\ result.kind = "search_ok"
    /\ skipped_duplicate
    /\ Len(sources) = 2

\* C5: after a successful discovery the source at position k has id k.
C5_DenseIds ==
    (pc = "idle" /\ result.kind = "search_ok") =>
        \A k \in 1..Len(sources) : sources[k].id = k

\* C6: process_section never lets an exception escape: every call returns a
\* result record.
C6_NoExceptionEscapes == ~result.escaped

\* calls whose body raised: a ValueError, and another exception
C6_Witness == result.kind = "unexpected_error" /\ result.isError

\* C7: when a section submission is answered with an error, report_sections
\* and the plan's current_section are what they were before the call.
C7_ErrorRecordsNothing ==
    [][(pre'.call = "section" /\ result'.isError) =>
          /\ report_sections' = report_sections
          /\ plan' = plan]_vars

\* C8: a discovery that returns no source is answered with an error result
\* and does not set _current_step.
C8_ZeroSourcesFails ==
    [][(pc = "sources" /\ pc' = "idle" /\ sources' = <<>>) =>
          /\ result'.isError
          /\ result'.kind = "no_sources"
          /\ current_step' = current_step]_vars

\* a search of an initialized session that found nothing
C8_Witness ==
    /\ pc = "idle"
    /\ pre.call = "search"
    /\ topic # NoTopic /\ topic.v # <<>>
    /\ sources = <<>>
    /\ result.kind = "no_sources"

\* C9: for page_count >= 1 the plan's total_sections is
\* min(page_count * 2 + 1, 20) and is the number of its stubs.
C9_TotalSections ==
    (plan # NoPlan /\ page_count >= 1) =>
        /\ plan.total_sections = Min(page_count * 2 + 1, 20)
        /\ plan.total_sections = Len(plan.sections)

NamedTitles == {"Bibliography", "Introduction", "Historical Context", "Main Analysis",
                "Key Findings", "Detailed Examination", "Cultural Significance",
                "Conclusion"}

HasStub(name) == \E i \in 1..Len(plan.sections) : plan.sections[i].title = <<name, 0>>

IsOther(stub) == stub.title[1] \notin NamedTitles

\* C10: the plan's stubs start with Bibliography, the only bibliography
\* stub, then Introduction, end with Conclusion, hold Historical Context iff
\* page_count >= 2, Main Analysis and Key Findings iff page_count >= 3,
\* Detailed Examination and Cultural Significance iff page_count >= 4, and
\* the other stubs are Additional Analysis 1, 2, ... in this order.
C10_PlanSkeleton ==
    plan # NoPlan =>
        LET s == plan.sections
            others == SelectSeq(s, IsOther)
        IN  /\ s[1] = [title |-> <<"Bibliography", 0>>, is_bibliography |-> TRUE]
            /\ \A i \in 2..Len(s) : ~s[i].is_bibliography
            /\ s[2].title = <<"Introduction", 0>>
            /\ s[Len(s)].title = <<"Conclusion", 0>>
            /\ HasStub("Historical Context") <=> page_count >= 2
            /\ HasStub("Main Analysis") <=> page_count >= 3
            /\ HasStub("Key Findings") <=> page_count >= 3
            /\ HasStub("Detailed Examination") <=> page_count >= 4
            /\ HasStub("Cultural Significance") <=> page_count >= 4
            /\ \A k \in 1..Len(others) : others[k].title = <<"Additional Analysis", k>>
            /\ \A n \in NamedTitles :
                  Cardinality({i \in 1..Len(s) : s[i].title[1] = n}) <= 1

\* a plan for 6 pages, with its named stubs and six additional ones
C10_Witness ==
    /\ plan # NoPlan
    /\ page_count = 6
    /\ HasStub("Cultural Significance")
    /\ \E i \in 1..Len(plan.sections) : plan.sections[i].title = <<"Additional Analysis", 6>>

\* a submission that passes the structural validation and the citation checks
Acceptable(inp) ==
    /\ IsSubmission(inp)
    /\ validate_section(inp).exc = "none"
    /\ citation_verdict(validate_section(inp).data) = "none"

\* the acceptable submissions whose section_number is above total_sections
NumberedPastTotal ==
    { inp \in SectionInputs :
        Acceptable(inp) /\ inp.section_number.v > inp.total_sections.v }

\* C11: a section submitted with section_number above total_sections is not
\* turned down for that: it is appended with total_sections raised to
\* section_number, and every section of report_sections has
\* total_sections >= section_number.
C11_TotalSectionsHealed ==
    [][/\ \A inp \in NumberedPastTotal :
            (pc = "idle" /\ pre'.call = "section" /\ SubmitSection(inp))
            => /\ Len(report_sections') = Len(report_sections) + 1
               /\ report_sections'[Len(report_sections')].section_number
                     = inp.section_number.v
               /\ report_sections'[Len(report_sections')].total_sections
                     = inp.section_number.v
               /\ result'.kind = "section_ok"
        /\ \A i \in 1..Len(report_sections') :
              report_sections'[i].total_sections >= report_sections'[i].section_number]_vars

\* a section submitted as 3 of 1, recorded as 3 of 3
C11_Witness ==
    /\ pre.call = "section"
    /\ result.kind = "section_ok"
    /\ \E i \in 1..Len(report_sections) :
          /\ report_sections[i].section_number = 3
          /\ report_sections[i].total_sections = 3

\* the paragraphs of 20 or more characters that hold no token, or a token
\* whose id is not in the list
Offending(content, used) ==
    { k \in 1..Len(paragraphs_of(content)) :
        LET p == paragraphs_of(content)[k]
        IN  /\ text_len(strip(p)) >= 20
            /\ \/ findall(p) = <<>>
               \/ ~(ToSet(findall(p)) \subseteq ToSet(used)) }

\* C12: for a non-empty sources_used, _verify_content_has_citations is
\* valid iff every paragraph of 20 or more characters holds a citation token
\* and only tokens whose id is in sources_used; its issue list has exactly
\* one entry for each offending paragraph, and none for a shorter paragraph.
C12_PresenceCheck ==
    (returns.fn = "_verify_content_has_citations" /\ args.sources_used # <<>>) =>
        LET off == Offending(args.content, args.sources_used)
            issues == returns.value.paragraph_issues
        IN  /\ returns.value.valid <=> off = {}
            /\ Len(issues) = Cardinality(off)
            /\ {issues[i].index : i \in 1..Len(issues)} = {k - 1 : k \in off}

\* one long paragraph without a token: one issue
C12_Witness ==
    /\ returns.fn = "_verify_content_has_citations"
    /\ args.content = <<"W">>
    /\ args.sources_used = <<1>>
    /\ ~returns.value.valid
    /\ Len(returns.value.paragraph_issues) = 1

\* the ids of the list that stand in no token of the content, in list order
RECURSIVE NotCitedIn(_, _)
NotCitedIn(used, content) ==
    IF used = <<>> THEN <<>>
    ELSE (IF Head(used) \in ToSet(findall(content)) THEN <<>> ELSE <<Head(used)>>)
         \o NotCitedIn(Tail(used), content)

\* C13: verify_citations reports as uncited_sources the ids of sources_used
\* that stand in no citation token of the content, in the order of
\* sources_used, and is not valid when there is one.
C13_UncitedSources ==
    returns.fn = "verify_citations" =>
        /\ returns.value.uncited_sources
              = NotCitedIn(args.sources_used, args.content)
        /\ returns.value.uncited_sources # <<>> => ~returns.value.valid

\* C14: verify_citations is not valid, and lists the id in
\* invalid_citations, when the content holds a citation token whose id is
\* not in sources_used.
C14_InvalidCitations ==
    returns.fn = "verify_citations" =>
        \A id \in ToSet(findall(args.content)) \ ToSet(args.sources_used) :
            /\ ~returns.value.valid
            /\ id \in returns.value.invalid_citations

RECURSIVE SumOf(_, _)
SumOf(f, S) ==
    IF S = {} THEN 0
    ELSE LET x == CHOOSE y \in S : TRUE IN f[x] + SumOf(f, S \ {x})

\* the position at which the provider is first met in the list
FirstMet(srcs, p) ==
    CHOOSE i \in 1..Len(srcs) :
        srcs[i].provider = p /\ \A j \in 1..(i - 1) : srcs[j].provider # p

\* C15: for a non-empty source list _analyze_provider_diversity returns a
\* map from the providers to counts that sum to the number of sources,
\* total_providers the number of distinct providers, diverse_sources true
\* iff there is more than one, and primary_provider a provider of highest
\* count, the first met in the list among those.
C15_ProviderDiversity ==
    (returns.fn = "_analyze_provider_diversity" /\ args.sources # <<>>) =>
        LET srcs == args.sources
            v == returns.value
            dist == v.provider_distribution
            met == {srcs[i].provider : i \in 1..Len(srcs)}
        IN  /\ DOMAIN dist = met
            /\ \A p \in met : dist[p] >= 1
            /\ SumOf(dist, met) = Len(srcs)
            /\ v.total_providers = Cardinality(met)
            /\ v.diverse_sources <=> v.total_providers > 1
            /\ v.primary_provider \in met
            /\ \A q \in met :
                  /\ dist[q] <= dist[v.primary_provider]
                  /\ dist[q] = dist[v.primary_provider]
                        => FirstMet(srcs, v.primary_provider) <= FirstMet(srcs, q)

\* the providers B, A, A, B: a tie of two, won by B
C15_Witness ==
    /\ returns.fn = "_analyze_provider_diversity"
    /\ Len(args.sources) = 4
    /\ args.sources[1].provider = "B" /\ args.sources[2].provider = "A"
    /\ args.sources[3].provider = "A" /\ args.sources[4].provider = "B"
    /\ returns.value.diverse_sources
    /\ returns.value.total_providers = 2
    /\ returns.value.primary_provider = "B"

\* C16: a section is appended to report_sections only after a confirmation
\* has taken effect since the last initialization.
C16_SectionsAfterConfirmation ==
    [][Len(report_sections') > Len(report_sections) => since_init.confirmed]_vars

\* C17: _current_step becomes 2 only in a session whose step is 1, after a
\* search that returned sources has succeeded since the last initialization.
C17_ConfirmationAfterDiscovery ==
    [][(current_step # 2 /\ current_step' = 2) =>
          /\ current_step = 1
          /\ since_init.searched]_vars

\* C18: a search request made while no topic is stored is answered with an
\* error and without raising, the collaborator is not called, and the
\* session is left as it was.
C18_SearchNeedsTopic ==
    [][(pc = "idle" /\ topic = NoTopic /\ pre'.call = "search") =>
          /\ result'.kind = "no_topic"
          /\ ~result'.escaped
          /\ pc' = "idle"
          /\ UNCHANGED session]_vars

\* a search requested of a session that was never initialized
C18_Witness ==
    /\ topic = NoTopic
    /\ pre.call = "search"
    /\ result.kind = "no_topic"
    /\ pc = "idle"

ErrorKinds == {"no_topic", "no_sources", "validation_error", "no_sources_cited",
               "content_invalid", "citation_invalid", "unexpected_error"}

\* C19: every result of process_section that reports an error carries
\* isError true.
C19_ErrorsFlagged == result.kind \in ErrorKinds => result.isError

\* C20: after an initialization page_count and source_count are integers
\* of at least 1.
C20_CountsAtLeastOne ==
    (pc = "idle" /\ pre.call = "topic") => (page_count >= 1 /\ source_count >= 1)

\* C21: search_sources returns at most source_count sources, whatever the
\* count the session holds and whatever the collaborator answers.
C21_AtMostSourceCount ==
    (pc = "idle" /\ pre.call = "search" /\ result.kind \in {"search_ok", "no_sources"}) =>
        Len(sources) <= source_count

\* C24: every id in the sources_used of a recorded section that is no
\* bibliography lies between 1 and the number of sources the session holds.
C24_SourcesUsedAreSourceIds ==
    \A i \in 1..Len(report_sections) :
        NonBibliography(i) =>
            \A id \in ToSet(report_sections[i].sources_used) :
                1 <= id /\ id <= Len(sources)

\* C25: after every step that changes the source list, provider_analysis
\* is the provider-diversity analysis of the new source list.
C25_AnalysisFollowsSources ==
    [][sources' # sources => provider_analysis' = analyze_provider_diversity(sources')]_vars

\* C29: once a topic has been stored by an initialization, whatever its
\* value, a search request goes to the discovery and is not answered with
\* the no-topic error.
C29_SearchAfterAnyTopic ==
    [][(pc = "idle" /\ topic # NoTopic /\ pre'.call = "search") =>
          /\ result'.kind # "no_topic"
          /\ pc' = "sources"]_vars

\* the strategies after k that search_sources skips, up to strategy n
SkippedBetween(k, n, collected) ==
    \A j \in (k + 1)..(n - 1) : ~source_strategy_runs(j, collected)

C23_StrategyOrder ==
    [][pc' = "sources" =>
          /\ strat' \in 1..7
          /\ strat' = 1 \/ Len(all_results') < source_count
          /\ pc = "sources" => strat' >= strat
          /\ pc # "sources" => strat' = 1]_vars

\* a discovery that has come to its last query, TEXT, one source short
C23_Witness ==
    /\ pc = "sources"
    /\ strat = 7
    /\ all_results # <<>>
    /\ Len(all_results) = source_count - 1

\* ' AND ' in topic: the word AND with a word on each side
has_and_operators(words) == \E i \in 2..(Len(words) - 1) : words[i] = "AND"

\* C30: the quoted query of strategy 2 is issued only when the direct
\* query left fewer than source_count sources and the topic holds neither
\* ' OR ' nor ' AND '.
C30_QuotedQueryGuard ==
    (pc = "sources" /\ strat = 2) =>
        /\ Len(all_results) < source_count
        /\ ~has_or_operators(topic_words)
        /\ ~has_and_operators(topic_words)

SectionOutcomes == {"section_ok", "validation_error", "no_sources_cited",
                    "content_invalid", "citation_invalid", "unexpected_error"}

\* C27: process_section dispatches by fixed priority: an input with the key
\* topic is an initialization whatever else it holds; otherwise an input
\* with a truthy search_sources is a search; otherwise an input with the key
\* confirm_sources is a confirmation; only an input with none of these is a
\* section submission.
C27_DispatchPriority ==
    [][\A inp \in DispatchInputs :
          (pc = "idle" /\ process_section(inp)) =>
              IF Has(inp, "topic")
              THEN /\ result'.kind = "init"
                   /\ topic' = Str(inp.topic.v)
                   /\ pc' = "idle"
              ELSE IF truthy(inp.search_sources)
              THEN /\ result'.kind = "no_topic" \/ pc' = "sources"
                   /\ report_sections' = report_sections
                   /\ current_step' = current_step
              ELSE IF Has(inp, "confirm_sources")
              THEN /\ result'.kind = "confirmed"
                   /\ current_step' = 2
                   /\ report_sections' = report_sections
              ELSE /\ result'.kind \in SectionOutcomes
                   /\ current_step' = current_step
                   /\ pc' = "idle"]_vars

\* C28: an input that holds the key confirm_sources, no topic and no truthy
\* search_sources is the confirmation: it sets _current_step to 2 and is
\* answered with the confirmation message, never with an outcome of a
\* section submission.
C28_ConfirmationKeyConfirms ==
    [][\A inp \in DispatchInputs :
          (/\ pc = "idle"
           /\ ~Has(inp, "topic") /\ ~truthy(inp.search_sources)
           /\ Has(inp, "confirm_sources")
           /\ process_section(inp)) =>
              /\ current_step' = 2
              /\ result'.kind = "confirmed"
              /\ result'.kind \notin SectionOutcomes]_vars

\* the session state of a controller
SessionOf(w) ==
    [topic |-> w.topic, page_count |-> w.page_count, source_count |-> w.source_count,
     include_graphics |-> w.include_graphics, sources |-> w.sources,
     graphics |-> w.graphics, report_sections |-> w.report_sections, plan |-> w.plan,
     current_step |-> w.current_step, provider_analysis |-> w.provider_analysis]

InstanceState(i) == IF active = i THEN SessionOf(Whole) ELSE SessionOf(other)

\* C26: with two controllers, a step of a call on one never changes the
\* session state of the other, however the steps of their calls interleave.
C26_InstancesIndependent ==
    [][/\ active' = active => InstanceState(3 - active)' = InstanceState(3 - active)
       /\ active' # active =>
             /\ InstanceState(1)' = InstanceState(1)
             /\ InstanceState(2)' = InstanceState(2)]_vars

\* both controllers in the middle of a discovery, on different topics, the
\* first already holding a section
C26_Witness ==
    /\ active = 2
    /\ pc = "sources"
    /\ other.pc = "sources"
    /\ other.topic # topic
    /\ other.report_sections # <<>>
    /\ report_sections = <<>>

\* C31: for every topic, one holding OR included, a discovery that is still
\* short of source_count after the earlier strategies issues the queries on
\* the topic filtered by type, IMAGE, VIDEO, SOUND, TEXT in this order, one
\* per type: it ends short of source_count only after the TEXT query.
C31_TypeQueriesWhenShort ==
    [][pc = "sources" =>
          /\ (pc' # "sources" /\ Len(sources') < source_count) =>
                (strat = 7 /\ source_query(strat) = Query(topic_words, FALSE, "TEXT"))
          /\ (pc' = "sources" /\ strat' # strat /\ strat' >= 4) =>
                /\ strat' = (IF strat < 4 THEN 4 ELSE strat + 1)
                /\ source_query(strat') = Query(topic_words, FALSE, media_types[strat' - 3])]_vars

\* what a strategy call has slept when it is at its attempt k
SleptBefore(k) == IF k = 0 THEN 0 ELSE IF k = 1 THEN 1 ELSE 3

WaitsInCall ==
    /\ pc # "idle" => waited.call = SleptBefore(attempt)
    /\ waited.call <= 3
    /\ waited.failed = (IF gave_up >= 0 THEN 3 ELSE 0)

\* C32: in a strategy call of search_sources or search_graphics, the wait
\* between failed attempt k and attempt k + 1 is 2^k seconds, 1 s then 2 s;
\* nothing is waited before the first attempt or after the third failed
\* attempt, so a strategy call waits at most 3 s.
C32_Backoff ==
    [][/\ WaitsInCall /\ WaitsInCall'
       /\ (pc # "idle" /\ pc' = pc /\ strat' = strat /\ attempt' = attempt + 1) =>
             waited'.call - waited.call = 2 ^ attempt
       /\ (pc # "idle" /\ attempt = 2 /\ SearchAttempt(Raises)) =>
             waited'.failed = waited.call]_vars

\* a graphics search in which a strategy call failed three times, 3 s slept
C32_Witness ==
    /\ pc = "graphics"
    /\ gave_up >= 0
    /\ waited.failed = 3
    /\ attempt = 2
    /\ waited.call = 3

\* the attempts search_sources can still make after the one it is at
AttemptsLeft == max_retries * (LastSourceStrategy - strat) + (max_retries - 1 - attempt)

\* C33: search_sources terminates whatever the collaborator answers: it is
\* at one of 7 strategy calls and one of 3 attempts, every attempt that does
\* not end it uses up one of the 21 attempts, and it does end.
C33_DiscoveryTerminates ==
    /\ [][pc = "sources" =>
             /\ strat \in 1..7
             /\ attempt \in 0..2
             /\ AttemptsLeft \in 0..20
             /\ pc' = "sources" => AttemptsLeft' < AttemptsLeft]_vars
    /\ (pc = "sources" ~> pc # "sources")

\* a discovery at the third attempt of its seventh strategy call, after a
\* strategy call that failed three times, nothing found
C33_Witness ==
    /\ pc = "sources"
    /\ strat = 7
    /\ attempt = 2
    /\ gave_up = 0
    /\ all_results = <<>>

\* the place of a media type in the order IMAGE, VIDEO, SOUND
GraphicsOrder(type) == IF type = "IMAGE" THEN 1 ELSE IF type = "VIDEO" THEN 2 ELSE 3

\* C34: every query of search_graphics carries the topic as given and a
\* type filter, IMAGE first, then VIDEO, then SOUND; none is built by joining
\* words of the topic with OR.
C34_GraphicsQueries ==
    [][pc' = "graphics" =>
          /\ graphics_query(strat').words = topic_words'
          /\ graphics_query(strat').type \in {"IMAGE", "VIDEO", "SOUND"}
          /\ pc # "graphics" => graphics_query(strat').type = "IMAGE"
          /\ (pc = "graphics" /\ strat' # strat) =>
                GraphicsOrder(graphics_query(strat').type) > GraphicsOrder(graphics_query(strat).type)]_vars

\* the step is a section submission that process_section accepted
SectionAccepted == pre'.call = "section" /\ result'.kind = "section_ok"

\* the section the step recorded
Recorded == report_sections'[Len(report_sections')]

\* C35: between two initializations, after each accepted section the plan's
\* current_section is that section's number, and it never moves backward.
C35_PointerAdvances ==
    [][(SectionAccepted /\ plan # NoPlan) =>
          /\ plan'.current_section = Recorded.section_number
          /\ plan'.current_section >= plan.current_section]_vars

\* C36: with a plan, the response to an accepted section says 'Report
\* complete' exactly when section_number is at least the number of stubs of
\* the plan, and otherwise names section section_number + 1 with the title of
\* the stub at that place in the plan; the plan's total_sections is the
\* number of its stubs, so sections 1 to total_sections submitted in order
\* are answered 'Report complete' at the last one and not before.
C36_NextStep ==
    [][(SectionAccepted /\ plan # NoPlan) =>
          /\ plan.total_sections = Len(plan.sections)
          /\ IF Recorded.section_number >= Len(plan.sections)
             THEN result'.next_step.kind = "complete"
             ELSE /\ result'.next_step.kind = "create"
                  /\ result'.next_step.number = Recorded.section_number + 1
                  /\ result'.next_step.number \in 1..Len(plan.sections)
                  /\ result'.next_step.title
                        = plan.sections[result'.next_step.number].title]_vars

\* C40: the progress of every response to an accepted section, the number of
\* sections recorded over the section's total_sections, is between 0 and 100
\* percent.
C40_ProgressInRange ==
    [][SectionAccepted =>
          /\ result'.progress.sections = Len(report_sections')
          /\ result'.progress.total = Recorded.total_sections
          /\ result'.progress.total > 0
          /\ result'.progress.sections <= result'.progress.total]_vars

\* the paragraphs of 20 characters or more
Qualifying(content) == SelectSeq(paragraphs_of(content), qualifies)

\* C37: citation_frequency of analyze_citation_patterns is the share of the
\* paragraphs of 20 characters or more that hold a citation token: a shorter
\* paragraph counts on neither side of the quotient.
C37_CitationDensity ==
    returns.fn = "analyze_citation_patterns" =>
        LET among == Qualifying(args.content)
            cited == SelectSeq(among, LAMBDA p : findall(p) # <<>>)
            f == returns.value.citation_frequency
        IN  IF among = <<>> THEN f.cited = 0
            ELSE /\ f.paragraphs > 0
                 /\ f.cited * Len(among) = Len(cited) * f.paragraphs

\* C38: whenever verify_citations finds a content valid for a sources_used,
\* _verify_content_has_citations finds it valid for the same arguments.
C38_FullImpliesPresence ==
    (returns.fn = "verify_citations" /\ returns.value.valid) =>
        verify_content_has_citations(args.content, args.sources_used).valid

\* C39: a search request answered with the zero-sources failure leaves the
\* sources, the graphics and the step as they were before the request, so a
\* session whose step says sources were discovered still holds a source.
C39_FailedSearchKeepsSession ==
    [][(pc = "sources" /\ pc' = "idle" /\ result'.kind = "no_sources") =>
          /\ sources' = sources
          /\ graphics' = graphics
          /\ current_step' = current_step
          /\ current_step' >= 1 => sources' # <<>>]_vars

====
